---------------------------- MODULE Spec2Model ----------------------------
(***************************************************************************)
(* Model of the classifier command (cmd/classifier/main.go): one run       *)
(* walks a source tree, resolves a category and an optional date folder    *)
(* for every regular file, suppresses content duplicates through a hash    *)
(* index, and copies the rest under collision-free names.                  *)
(*                                                                         *)
(* Go strings are modelled as sequences of one-character strings so that   *)
(* extension splitting, lower-casing, length tests and concatenation are   *)
(* computed, not assumed.  Category names, which the program only compares *)
(* and joins into paths, stay plain strings.  The destination is taken to  *)
(* lie outside the source tree, and nothing else writes to it.             *)
(***************************************************************************)
EXTENDS Integers, Sequences, FiniteSets, TLC

(***************************************************************************)
(* Bounds of the model.                                                    *)
(***************************************************************************)
MaxFiles == 3      \* non-directory entries in the source tree
MaxPatterns == 2   \* date patterns handed to resolve in SpecResolve
MaxGroups == 2     \* capture groups of a pattern in SpecResolve
MaxExisting == 2   \* files already in the directory in SpecNamer

(***************************************************************************)
(* Strings.                                                                *)
(***************************************************************************)
Digits == {"0", "1", "2", "3", "4", "5", "6", "7", "8", "9"}
DigitChars == <<"0", "1", "2", "3", "4", "5", "6", "7", "8", "9">>

Min(S) == CHOOSE x \in S : \A y \in S : x <= y
Max(S) == CHOOSE x \in S : \A y \in S : x >= y

\* byte value of the characters the model uses (Go compares strings bytewise)
Ord(c) ==
  CASE c = "." -> 46 [] c = "0" -> 48 [] c = "1" -> 49 [] c = "2" -> 50
    [] c = "3" -> 51 [] c = "4" -> 52 [] c = "5" -> 53 [] c = "6" -> 54
    [] c = "7" -> 55 [] c = "8" -> 56 [] c = "9" -> 57 [] c = "G" -> 71
    [] c = "J" -> 74 [] c = "P" -> 80 [] c = "_" -> 95 [] c = "a" -> 97
    [] c = "b" -> 98 [] c = "c" -> 99 [] c = "g" -> 103 [] c = "j" -> 106
    [] c = "m" -> 109 [] c = "n" -> 110 [] c = "p" -> 112 [] c = "t" -> 116
    [] c = "x" -> 120 [] OTHER -> 45

\* strings.ToLower on one character
LowerChar(c) ==
  CASE c = "J" -> "j" [] c = "P" -> "p" [] c = "G" -> "g" [] OTHER -> c

ToLower(s) == [i \in 1..Len(s) |-> LowerChar(s[i])]

\* strings.TrimPrefix(s, ".")
TrimPrefixDot(s) == IF Len(s) > 0 /\ s[1] = "." THEN Tail(s) ELSE s

\* filepath.Ext: the suffix beginning at the final dot, empty if there is none
Ext(name) ==
  LET dots == {i \in 1..Len(name) : name[i] = "."}
  IN IF dots = {} THEN <<>> ELSE SubSeq(name, Max(dots), Len(name))

\* strings.TrimSuffix(name, ext)
TrimSuffix(name, ext) ==
  IF Len(ext) <= Len(name)
     /\ SubSeq(name, Len(name) - Len(ext) + 1, Len(name)) = ext
  THEN SubSeq(name, 1, Len(name) - Len(ext))
  ELSE name

\* fmt.Sprintf("%d", i) for i >= 0
RECURSIVE Itoa(_)
Itoa(i) ==
  IF i < 10 THEN <<DigitChars[i + 1]>>
  ELSE Itoa(i \div 10) \o <<DigitChars[(i % 10) + 1]>>

\* lexical order of two strings (bytewise, a proper prefix sorts first)
StrLess(s, t) ==
  \E k \in 1..(Len(t)) :
    /\ k <= Len(s) + 1
    /\ \A i \in 1..(k - 1) : s[i] = t[i]
    /\ (k = Len(s) + 1 \/ Ord(s[k]) < Ord(t[k]))

(***************************************************************************)
(* Category resolver.                                                      *)
(***************************************************************************)
\* the inner loop of newCategoryResolver over one category's extensions
RECURSIVE addExtensions(_, _, _, _)
addExtensions(table, catName, exts, i) ==
  IF i > Len(exts) THEN table
  ELSE LET clean == TrimPrefixDot(ToLower(exts[i]))
       IN IF clean = <<>>
          THEN addExtensions(table, catName, exts, i + 1)
          ELSE addExtensions([e \in (DOMAIN table) \cup {clean} |->
                                IF e = clean THEN catName ELSE table[e]],
                             catName, exts, i + 1)

\* the outer loop of newCategoryResolver over the configured categories
RECURSIVE addCategories(_, _, _)
addCategories(table, cats, i) ==
  IF i > Len(cats) THEN table
  ELSE addCategories(addExtensions(table, cats[i].Name, cats[i].Extensions, 1),
                     cats, i + 1)

newCategoryResolver(c) ==
  [defaultCategory |-> IF c.DefaultCategory = "" THEN "others"
                       ELSE c.DefaultCategory,
   extToCategory |-> addCategories(<<>>, c.Categories, 1)]

categoryForCaseSensitive(r, name) ==
  LET ext == TrimPrefixDot(Ext(name))
  IN IF ext = <<>> THEN r.defaultCategory
     ELSE IF ext \in DOMAIN r.extToCategory THEN r.extToCategory[ext]
     ELSE r.defaultCategory

categoryFor(r, name) ==
  LET ext == TrimPrefixDot(ToLower(Ext(name)))
  IN IF ext = <<>> THEN r.defaultCategory
     ELSE IF ext \in DOMAIN r.extToCategory THEN r.extToCategory[ext]
     ELSE r.defaultCategory

(***************************************************************************)
(* Date resolver.                                                          *)
(***************************************************************************)
allDigits(s) == (\A i \in 1..Len(s) : s[i] \in Digits) /\ s # <<>>

\* the scan of fallbackYearMonth; index 1 of matches is the whole match
RECURSIVE fallbackScan(_, _, _, _)
fallbackScan(matches, i, year, month) ==
  IF i > Len(matches) THEN [year |-> year, month |-> month]
  ELSE LET m == matches[i]
       IN IF Len(m) = 4 /\ allDigits(m) /\ year = <<>>
          THEN fallbackScan(matches, i + 1, m, month)
          ELSE LET mo == IF Len(m) = 2 /\ allDigits(m) /\ month = <<>>
                         THEN m ELSE month
               IN IF year # <<>> /\ mo # <<>>
                  THEN [year |-> year, month |-> mo]
                  ELSE fallbackScan(matches, i + 1, year, mo)

\* variant: the scan starts after the whole match
fallbackYearMonthGroupsOnly(matches) == fallbackScan(matches, 2, <<>>, <<>>)

fallbackYearMonth(matches) == fallbackScan(matches, 1, <<>>, <<>>)

\* the loop over SubexpNames that reads the groups named year and month
RECURSIVE namedGroups(_, _, _, _, _)
namedGroups(matches, subexpNames, i, year, month) ==
  IF i > Len(subexpNames) THEN [year |-> year, month |-> month]
  ELSE namedGroups(matches, subexpNames, i + 1,
                   IF subexpNames[i] = "year" THEN matches[i] ELSE year,
                   IF subexpNames[i] = "month" THEN matches[i] ELSE month)

\* variant: the positional groups are used whenever a named part is missing
extractYearMonthEitherEmpty(matches, subexpNames) ==
  LET n == namedGroups(matches, subexpNames, 1, <<>>, <<>>)
      positional == (n.year = <<>> \/ n.month = <<>>) /\ Len(matches) >= 3
      p == IF positional THEN [year |-> matches[2], month |-> matches[3]]
           ELSE n
      scanned == p.year = <<>> \/ p.month = <<>>
      f == IF scanned THEN fallbackYearMonth(matches) ELSE p
  IN [year |-> f.year, month |-> f.month,
      via |-> IF scanned THEN "fallback"
              ELSE IF positional THEN "positional" ELSE "named"]

\* year and month of one matching pattern, with the branch that set them
extractYearMonth(matches, subexpNames) ==
  LET n == namedGroups(matches, subexpNames, 1, <<>>, <<>>)
      positional == n.year = <<>> /\ Len(matches) >= 3
      p == IF positional THEN [year |-> matches[2], month |-> matches[3]]
           ELSE n
      scanned == p.year = <<>> \/ p.month = <<>>
      f == IF scanned THEN fallbackYearMonth(matches) ELSE p
  IN [year |-> f.year, month |-> f.month,
      via |-> IF scanned THEN "fallback"
              ELSE IF positional THEN "positional" ELSE "named"]

NotFound == [year |-> <<>>, ym |-> <<>>, ok |-> FALSE]

\* the pattern loop of resolve over the results of FindStringSubmatch and
\* SubexpNames; at is the index of the pattern that produced the result
\* variant: the first pattern that matches ends the loop, valid or not
RECURSIVE resolveLoopFirstMatch(_, _)
resolveLoopFirstMatch(found, i) ==
  IF i > Len(found) THEN [out |-> NotFound, at |-> 0]
  ELSE IF ~found[i].matched THEN resolveLoopFirstMatch(found, i + 1)
  ELSE LET e == extractYearMonth(found[i].matches, found[i].subexpNames)
       IN IF Len(e.year) = 4 /\ Len(e.month) = 2
          THEN [out |-> [year |-> e.year, ym |-> e.year \o e.month,
                         ok |-> TRUE],
                at |-> i]
          ELSE [out |-> NotFound, at |-> 0]

\* variant: a pair is accepted as soon as both parts are non-empty
RECURSIVE resolveLoopNoLength(_, _)
resolveLoopNoLength(found, i) ==
  IF i > Len(found) THEN [out |-> NotFound, at |-> 0]
  ELSE IF ~found[i].matched THEN resolveLoopNoLength(found, i + 1)
  ELSE LET e == extractYearMonth(found[i].matches, found[i].subexpNames)
       IN IF e.year # <<>> /\ e.month # <<>>
          THEN [out |-> [year |-> e.year, ym |-> e.year \o e.month,
                         ok |-> TRUE],
                at |-> i]
          ELSE resolveLoopNoLength(found, i + 1)

RECURSIVE resolveLoop(_, _)
resolveLoop(found, i) ==
  IF i > Len(found) THEN [out |-> NotFound, at |-> 0]
  ELSE IF ~found[i].matched THEN resolveLoop(found, i + 1)
  ELSE LET e == extractYearMonth(found[i].matches, found[i].subexpNames)
       IN IF Len(e.year) = 4 /\ Len(e.month) = 2
          THEN [out |-> [year |-> e.year, ym |-> e.year \o e.month,
                         ok |-> TRUE],
                at |-> i]
          ELSE resolveLoop(found, i + 1)

(***************************************************************************)
(* Regular expressions of the configuration: a compiled pattern is a       *)
(* sequence of one-character items, each a literal or the class \d, each   *)
(* inside capture group grp (0 for none); names holds the group names.     *)
(***************************************************************************)
InClass(c, cls) == IF cls = "digit" THEN c \in Digits ELSE c = cls

MatchesAt(re, s, p) ==
  /\ p + Len(re.items) - 1 <= Len(s)
  /\ \A i \in 1..Len(re.items) : InClass(s[p + i - 1], re.items[i].cls)

GroupText(re, s, p, g) ==
  LET idx == {i \in 1..Len(re.items) : re.items[i].grp = g}
  IN IF idx = {} THEN <<>>
     ELSE SubSeq(s, p + Min(idx) - 1, p + Max(idx) - 1)

\* regexp.FindStringSubmatch: leftmost match, whole match then the groups
FindStringSubmatch(re, s) ==
  LET ps == {p \in 1..(Len(s) + 1) : MatchesAt(re, s, p)}
  IN IF ps = {} THEN [matched |-> FALSE, matches |-> <<>>]
     ELSE LET p == Min(ps)
          IN [matched |-> TRUE,
              matches |-> <<SubSeq(s, p, p + Len(re.items) - 1)>> \o
                          [g \in 1..Len(re.names) |-> GroupText(re, s, p, g)]]

\* regexp.SubexpNames: index 0 (here 1) is the whole match and has no name
SubexpNames(re) == <<"">> \o re.names

resolve(r, name) ==
  resolveLoop([i \in 1..Len(r.patterns) |->
                 [matched |-> FindStringSubmatch(r.patterns[i], name).matched,
                  matches |-> FindStringSubmatch(r.patterns[i], name).matches,
                  subexpNames |-> SubexpNames(r.patterns[i])]], 1).out

newDateResolver(patterns) == [patterns |-> patterns]


(***************************************************************************)
(* Files.  A content is strings.Repeat(ch, size); the SHA-256 digest is    *)
(* modelled as collision-free, so a digest determines the content.         *)
(***************************************************************************)
minImageSize == 1048576

fileHash(content) == <<"sha256", content.ch, content.size>>

\* a destination directory is the sequence of path elements below <dest>;
\* a destination file is a directory and a base name
DestPath(dir, name) == [dir |-> dir, name |-> name]

Prefixes(dir) == {SubSeq(dir, 1, k) : k \in 0..Len(dir)}

\* os.MkdirAll: the directory and every missing parent
MkdirAll(dirs, dir) == dirs \cup Prefixes(dir)

\* os.Stat(filepath.Join(dir, name)) succeeds: a file or a directory is there
Exists(files, dirs, dir, name) ==
  \/ DestPath(dir, name) \in DOMAIN files
  \/ Append(dir, name) \in dirs

\* the numbered name uniqueDestPath probes for counter i
Candidate(name, i) ==
  LET ext == Ext(name)
      base == TrimSuffix(name, ext)
  IN base \o <<"_">> \o Itoa(i) \o ext

RECURSIVE probe(_, _, _, _, _)
probe(files, dirs, dir, name, i) ==
  IF ~Exists(files, dirs, dir, Candidate(name, i))
  THEN DestPath(dir, Candidate(name, i))
  ELSE probe(files, dirs, dir, name, i + 1)

\* variant: the counter starts at 0
uniqueDestPathFromZero(files, dirs, dir, name) ==
  IF ~Exists(files, dirs, dir, name) THEN DestPath(dir, name)
  ELSE probe(files, dirs, dir, name, 0)

\* variant: the desired name is used without looking at the destination
uniqueDestPathNoProbe(files, dirs, dir, name) == DestPath(dir, name)

\* variant: the first numbered name is taken without a look
uniqueDestPathOnce(files, dirs, dir, name) ==
  IF ~Exists(files, dirs, dir, name) THEN DestPath(dir, name)
  ELSE DestPath(dir, Candidate(name, 1))

uniqueDestPath(files, dirs, dir, name) ==
  IF ~Exists(files, dirs, dir, name) THEN DestPath(dir, name)
  ELSE probe(files, dirs, dir, name, 1)

\* variant: the destination is created and nothing is written to it
copyFileEmpty(files, dest, content) ==
  [p \in (DOMAIN files) \cup {dest} |->
     IF p = dest THEN [ch |-> content.ch, size |-> 0] ELSE files[p]]

\* copyFile: O_CREATE|O_TRUNC, the destination holds the source bytes
copyFile(files, dest, content) ==
  [p \in (DOMAIN files) \cup {dest} |-> IF p = dest THEN content ELSE files[p]]

\* variant: the date folder is added whatever the category
targetDirForAnyCategory(catRes, dateRes, name) ==
  LET category == categoryFor(catRes, name)
      d == resolve(dateRes, name)
  IN IF d.ok THEN <<category, d.year, d.ym>> ELSE <<category>>

\* the target directory of a file that is to be copied
targetDirFor(catRes, dateRes, name) ==
  LET category == categoryFor(catRes, name)
      d == resolve(dateRes, name)
  IN IF (category = "images" \/ category = "movies") /\ d.ok
     THEN <<category, d.year, d.ym>>
     ELSE <<category>>

(***************************************************************************)
(* Source tree and walk order.  An entry is a path below <src> (sequence   *)
(* of names), a kind and, for a regular file, its content.                 *)
(***************************************************************************)
Last(s) == s[Len(s)]

Children(tree, dir) ==
  {e \in tree : Len(e.path) = Len(dir) + 1 /\ SubSeq(e.path, 1, Len(dir)) = dir}

\* filepath.WalkDir below one directory: entries in name order, the
\* contents of a subdirectory right after the subdirectory itself
\* variant: the entries of a directory are visited in descending name order
RECURSIVE walkEntriesDescending(_, _)
walkEntriesDescending(tree, todo) ==
  IF todo = {} THEN <<>>
  ELSE LET e == CHOOSE x \in todo :
                  \A o \in todo \ {x} : StrLess(Last(o.path), Last(x.path))
       IN <<e>>
          \o (IF e.kind = "dir"
              THEN walkEntriesDescending(tree, Children(tree, e.path))
              ELSE <<>>)
          \o walkEntriesDescending(tree, todo \ {e})

RECURSIVE walkEntries(_, _)
walkEntries(tree, todo) ==
  IF todo = {} THEN <<>>
  ELSE LET e == CHOOSE x \in todo :
                  \A o \in todo \ {x} : StrLess(Last(x.path), Last(o.path))
       IN <<e>>
          \o (IF e.kind = "dir" THEN walkEntries(tree, Children(tree, e.path))
              ELSE <<>>)
          \o walkEntries(tree, todo \ {e})

NoContent == [ch |-> "", size |-> 0]
RootEntry == [path |-> <<>>, kind |-> "dir", content |-> NoContent]

WalkDir(tree) == <<RootEntry>> \o walkEntries(tree, Children(tree, <<>>))


(***************************************************************************)
(* State.                                                                  *)
(***************************************************************************)
VARIABLES
  pc,            \* "args", "walk", "done" (exit 0) or "failed" (exit non-zero)
  args,          \* the positional arguments: their number, which are absolute
  cfg,           \* the loaded configuration
  srcTree,       \* the entries below <src>
  resolver,      \* run: resolver
  dateResolver,  \* run: dateResolver
  walk,          \* the entries in the order filepath.WalkDir yields them
  pos,           \* index in walk of the next entry the callback receives
  hashIndex,     \* run: hashIndex, digest -> final destination path
  skipped,       \* run: skipped, the list of skippedEntry
  destDirs,      \* directories that exist at or below <dest>
  destFiles,     \* files that exist below <dest>: path -> content
  warnCsv,       \* <dest>/warn.csv: whether it exists and its rows
  copies,        \* history: the copies of this run, source and destination
  gated,         \* history: sources skipped by the image size gate in this run
  rerun,         \* TRUE once the command has been started a second time
  rsIn,          \* SpecResolve: per pattern, what the regexp yields on the name
  rsOut,         \* SpecResolve: the result of resolve
  nmName,        \* SpecNamer: the desired name
  nmOut,         \* SpecNamer: the result of uniqueDestPath
  ctName,        \* SpecCategory: the file name
  ctOut          \* SpecCategory: the result of categoryFor

runVars == <<pc, args, cfg, srcTree, resolver, dateResolver, walk, pos,
             hashIndex, skipped, destDirs, destFiles, warnCsv, copies,
             gated, rerun>>
vars == <<pc, args, cfg, srcTree, resolver, dateResolver, walk, pos,
          hashIndex, skipped, destDirs, destFiles, warnCsv, copies, gated,
          rerun, rsIn, rsOut, nmName, nmOut, ctName, ctOut>>

(***************************************************************************)
(* Inputs of the run: file names, contents, source trees, configurations.  *)
(***************************************************************************)
JPG == <<".", "j", "p", "g">>
nameA == <<"a">> \o JPG
nameAUpper == <<"a", ".", "J", "P", "G">>
nameA1 == <<"a", "_", "1">> \o JPG
nameB == <<"b">> \o JPG
nameDir == <<"b">>
Stamp == <<"2", "0", "2", "4", "0", "1">>
nameDated == Stamp \o JPG
nameDatedMovie == Stamp \o <<".", "m", "p", "4">>
nameDatedText == Stamp \o <<".", "t", "x", "t">>

Big == [ch |-> "x", size |-> minImageSize]
Small == [ch |-> "x", size |-> minImageSize - 1]
Huge == [ch |-> "y", size |-> 2 * minImageSize]
Contents == {Big, Small, Huge}

Regular(c) == [kind |-> "regular", content |-> c]
OtherChoice == [kind |-> "other", content |-> NoContent]

Slots == {<<nameDated>>, <<nameDatedText>>, <<nameA>>, <<nameA1>>,
          <<nameDir, nameA>>, <<nameDir, nameDatedMovie>>,
          <<nameDir, nameAUpper>>, <<nameB>>}

\* what each slot of the source tree may hold
ChoicesFor(path) ==
  CASE path = <<nameA>> -> {Regular(Big), Regular(Small), Regular(Huge)}
    [] path = <<nameB>> -> {Regular(Big), Regular(Huge), OtherChoice}
    [] path \in {<<nameDated>>, <<nameDir, nameDatedMovie>>} ->
         {Regular(Big), Regular(Small)}
    [] path = <<nameDatedText>> -> {Regular(Small), Regular(Huge)}
    [] OTHER -> {Regular(Big), Regular(Huge)}

AllChoices == UNION {ChoicesFor(p) : p \in Slots}

TreeOf(f) ==
  {[path |-> p, kind |-> f[p].kind, content |-> f[p].content] : p \in DOMAIN f}
  \cup {[path |-> <<nameDir>>, kind |-> "dir", content |-> NoContent] :
          p \in {q \in DOMAIN f : Len(q) = 2}}

Trees ==
  UNION {{TreeOf(f) : f \in {g \in [S -> AllChoices] :
                               \A p \in S : g[p] \in ChoicesFor(p)}} :
         S \in {T \in SUBSET Slots : Cardinality(T) <= MaxFiles}}

digit(g) == [cls |-> "digit", grp |-> g]
\* (\d{4})(\d{2})
rePositional == [names |-> <<"", "">>,
                 items |-> <<digit(1), digit(1), digit(1), digit(1),
                             digit(2), digit(2)>>]
\* (?P<month>\d{2})-(?P<year>\d{4})
reNamed == [names |-> <<"month", "year">>,
            items |-> <<digit(1), digit(1), [cls |-> "-", grp |-> 0],
                        digit(2), digit(2), digit(2), digit(2)>>]

CfgFull ==
  [Categories |-> <<[Name |-> "images", Extensions |-> <<<<"j", "p", "g">>>>],
                    [Name |-> "movies", Extensions |-> <<<<"m", "p", "4">>>>],
                    [Name |-> "documents",
                     Extensions |-> <<<<"t", "x", "t">>>>]>>,
   DefaultCategory |-> "others",
   DatePatterns |-> <<reNamed, rePositional>>]
CfgBare ==
  [Categories |-> <<[Name |-> "images",
                     Extensions |-> <<<<>>, <<".", "J", "P", "G">>>>]>>,
   DefaultCategory |-> "",
   DatePatterns |-> <<>>]
Configs == {CfgFull, CfgBare}

GoodArgs == [n |-> 2, srcAbs |-> TRUE, destAbs |-> TRUE]
ArgChoices ==
  {GoodArgs, [n |-> 1, srcAbs |-> TRUE, destAbs |-> TRUE],
   [n |-> 3, srcAbs |-> TRUE, destAbs |-> TRUE],
   [n |-> 2, srcAbs |-> FALSE, destAbs |-> TRUE],
   [n |-> 2, srcAbs |-> TRUE, destAbs |-> FALSE]}

NoWarn == [exists |-> FALSE, rows |-> <<>>]
NoResolver == [defaultCategory |-> "", extToCategory |-> <<>>]
NoResult == [done |-> FALSE, out |-> NotFound, at |-> 0]
NoPath == [done |-> FALSE, path |-> DestPath(<<>>, <<>>)]
NoCategory == [done |-> FALSE, category |-> ""]

IdleResolve == rsIn = <<>> /\ rsOut = NoResult
IdleNamer == nmName = <<>> /\ nmOut = NoPath
IdleCategory == ctName = <<>> /\ ctOut = NoCategory

(***************************************************************************)
(* The run.                                                                *)
(***************************************************************************)
Init ==
  /\ pc = "args"
  /\ args \in ArgChoices
  /\ cfg \in Configs
  /\ srcTree \in Trees
  /\ (args # GoodArgs => cfg = CfgFull /\ Cardinality(srcTree) <= 1)
  /\ resolver = NoResolver
  /\ dateResolver = newDateResolver(<<>>)
  /\ walk = <<>>
  /\ pos = 1
  /\ hashIndex = <<>>
  /\ skipped = <<>>
  /\ destDirs = {}
  /\ destFiles = <<>>
  /\ warnCsv = NoWarn
  /\ copies = <<>>
  /\ gated = {}
  /\ rerun = FALSE
  /\ IdleResolve
  /\ IdleNamer
  /\ IdleCategory

idle == <<rsIn, rsOut, nmName, nmOut, ctName, ctOut>>

\* run, lines 63-72: wrong argument count or a path that is not absolute
UsageError ==
  /\ pc = "args"
  /\ (args.n # 2 \/ ~args.srcAbs \/ ~args.destAbs)
  /\ pc' = "failed"
  /\ UNCHANGED <<args, cfg, srcTree, resolver, dateResolver, walk, pos,
                 hashIndex, skipped, destDirs, destFiles, warnCsv, copies,
                 gated, rerun, idle>>

\* variant: only the source is required to be absolute
SetupSourceOnly ==
  /\ pc = "args"
  /\ args.n = 2 /\ args.srcAbs
  /\ resolver' = newCategoryResolver(cfg)
  /\ dateResolver' = newDateResolver(cfg.DatePatterns)
  /\ destDirs' = MkdirAll(destDirs, <<>>)
  /\ hashIndex' = <<>>
  /\ skipped' = <<>>
  /\ walk' = WalkDir(srcTree)
  /\ pos' = 1
  /\ pc' = "walk"
  /\ UNCHANGED <<args, cfg, srcTree, destFiles, warnCsv, copies, gated,
                 rerun, idle>>

\* run, lines 63-99: the arguments are valid, the destination is created,
\* the index and the skip list start empty and the walk begins
Setup ==
  /\ pc = "args"
  /\ args.n = 2 /\ args.srcAbs /\ args.destAbs
  /\ resolver' = newCategoryResolver(cfg)
  /\ dateResolver' = newDateResolver(cfg.DatePatterns)
  /\ destDirs' = MkdirAll(destDirs, <<>>)
  /\ hashIndex' = <<>>
  /\ skipped' = <<>>
  /\ walk' = WalkDir(srcTree)
  /\ pos' = 1
  /\ pc' = "walk"
  /\ UNCHANGED <<args, cfg, srcTree, destFiles, warnCsv, copies, gated,
                 rerun, idle>>

\* run, lines 74-94: the configuration cannot be loaded, the source is not
\* a directory or the destination cannot be created
SetupFail ==
  /\ pc = "args"
  /\ args.n = 2 /\ args.srcAbs /\ args.destAbs
  /\ pc' = "failed"
  /\ UNCHANGED <<args, cfg, srcTree, resolver, dateResolver, walk, pos,
                 hashIndex, skipped, destDirs, destFiles, warnCsv, copies,
                 gated, rerun, idle>>

Visiting == pc = "walk" /\ pos <= Len(walk)
Entry == walk[pos]
EntryName == Last(Entry.path)
EntryCategory == categoryFor(resolver, EntryName)
\* variant: the index key also carries the category
EntryHashPerCategory == Append(fileHash(Entry.content), EntryCategory)
EntryHash == fileHash(Entry.content)
\* variant: a file of exactly the threshold size is gated too
IsGatedInclusive ==
  EntryCategory = "images" /\ Entry.content.size <= minImageSize
IsGated == EntryCategory = "images" /\ Entry.content.size < minImageSize
IsRegular == Visiting /\ Entry.kind = "regular"
IsHashed == IsRegular /\ ~IsGated
IsFresh == IsHashed /\ EntryHash \notin DOMAIN hashIndex
EntryTargetDir == targetDirFor(resolver, dateResolver, EntryName)

\* callback, lines 103-105: a directory
VisitDir ==
  /\ Visiting /\ Entry.kind = "dir"
  /\ pos' = pos + 1
  /\ UNCHANGED <<pc, args, cfg, srcTree, resolver, dateResolver, walk,
                 hashIndex, skipped, destDirs, destFiles, warnCsv, copies,
                 gated, rerun, idle>>

\* variant: the entry is not tested for being a regular file
VisitNonRegularCopied ==
  /\ Visiting /\ Entry.kind = "other"
  /\ LET dirs == MkdirAll(destDirs, EntryTargetDir)
         finalPath == uniqueDestPath(destFiles, dirs, EntryTargetDir,
                                     EntryName)
     IN /\ destDirs' = dirs
        /\ destFiles' = copyFile(destFiles, finalPath, Entry.content)
        /\ hashIndex' = (EntryHash :> finalPath) @@ hashIndex
        /\ copies' = Append(copies, [srcPath |-> Entry.path,
                                     destPath |-> finalPath])
  /\ pos' = pos + 1
  /\ UNCHANGED <<pc, args, cfg, srcTree, resolver, dateResolver, walk,
                 skipped, warnCsv, gated, rerun, idle>>

\* callback, lines 107-114: a symbolic link, device or socket
VisitNonRegular ==
  /\ Visiting /\ Entry.kind = "other"
  /\ pos' = pos + 1
  /\ UNCHANGED <<pc, args, cfg, srcTree, resolver, dateResolver, walk,
                 hashIndex, skipped, destDirs, destFiles, warnCsv, copies,
                 gated, rerun, idle>>

\* callback, lines 116-122: an image below the size threshold
VisitSmallImage ==
  /\ IsRegular /\ IsGated
  /\ gated' = gated \cup {Entry.path}
  /\ pos' = pos + 1
  /\ UNCHANGED <<pc, args, cfg, srcTree, resolver, dateResolver, walk,
                 hashIndex, skipped, destDirs, destFiles, warnCsv, copies,
                 rerun, idle>>

\* variant: the duplicate is recorded and the callback goes on to copy it
VisitDuplicateAndCopy ==
  /\ IsHashed /\ EntryHash \in DOMAIN hashIndex
  /\ skipped' = Append(skipped, [srcPath |-> Entry.path,
                                 destPath |-> hashIndex[EntryHash]])
  /\ LET dirs == MkdirAll(destDirs, EntryTargetDir)
         finalPath == uniqueDestPath(destFiles, dirs, EntryTargetDir,
                                     EntryName)
     IN /\ destDirs' = dirs
        /\ destFiles' = copyFile(destFiles, finalPath, Entry.content)
        /\ hashIndex' = [hashIndex EXCEPT ![EntryHash] = finalPath]
        /\ copies' = Append(copies, [srcPath |-> Entry.path,
                                     destPath |-> finalPath])
  /\ pos' = pos + 1
  /\ UNCHANGED <<pc, args, cfg, srcTree, resolver, dateResolver, walk,
                 warnCsv, gated, rerun, idle>>

\* callback, lines 124-131: the digest is already in the index
VisitDuplicate ==
  /\ IsHashed /\ EntryHash \in DOMAIN hashIndex
  /\ skipped' = Append(skipped, [srcPath |-> Entry.path,
                                 destPath |-> hashIndex[EntryHash]])
  /\ pos' = pos + 1
  /\ UNCHANGED <<pc, args, cfg, srcTree, resolver, dateResolver, walk,
                 hashIndex, destDirs, destFiles, warnCsv, copies, gated,
                 rerun, idle>>

\* variant: the directory of the file below the source is kept
VisitCopyKeepsTree ==
  /\ IsFresh
  /\ LET dir == EntryTargetDir \o SubSeq(Entry.path, 1, Len(Entry.path) - 1)
         dirs == MkdirAll(destDirs, dir)
         finalPath == uniqueDestPath(destFiles, dirs, dir, EntryName)
     IN /\ destDirs' = dirs
        /\ destFiles' = copyFile(destFiles, finalPath, Entry.content)
        /\ hashIndex' = (EntryHash :> finalPath) @@ hashIndex
        /\ copies' = Append(copies, [srcPath |-> Entry.path,
                                     destPath |-> finalPath])
  /\ pos' = pos + 1
  /\ UNCHANGED <<pc, args, cfg, srcTree, resolver, dateResolver, walk,
                 skipped, warnCsv, gated, rerun, idle>>

\* callback, lines 124-154: a new digest; the file is copied and indexed
VisitCopy ==
  /\ IsFresh
  /\ LET dirs == MkdirAll(destDirs, EntryTargetDir)
         finalPath == uniqueDestPath(destFiles, dirs, EntryTargetDir,
                                     EntryName)
     IN /\ destDirs' = dirs
        /\ destFiles' = copyFile(destFiles, finalPath, Entry.content)
        /\ hashIndex' = (EntryHash :> finalPath) @@ hashIndex
        /\ copies' = Append(copies, [srcPath |-> Entry.path,
                                     destPath |-> finalPath])
  /\ pos' = pos + 1
  /\ UNCHANGED <<pc, args, cfg, srcTree, resolver, dateResolver, walk,
                 skipped, warnCsv, gated, rerun, idle>>

\* the content a copy that failed midway leaves behind
Partial(content) ==
  {[ch |-> content.ch, size |-> n] : n \in {0, content.size \div 2}}

\* writeWarnings: the file is created or truncated and gets one row of two
\* fields, source path and kept path, per entry, in the order of the list
writeWarnings(entries) ==
  [exists |-> TRUE,
   rows |-> [i \in 1..Len(entries) |->
               <<entries[i].srcPath, entries[i].destPath>>]]

\* variant: the skip list collected so far is flushed when the walk fails
VisitFailFlush ==
  /\ Visiting
  /\ \E stage \in {"walk", "info", "hash", "mkdir", "stat", "open", "copy"} :
       /\ stage = "walk" => Entry.kind = "dir"
       /\ stage = "info" => Entry.kind # "dir"
       /\ stage = "hash" => IsHashed
       /\ stage \in {"mkdir", "stat", "open", "copy"} => IsFresh
       /\ destDirs' =
            IF stage \in {"stat", "open", "copy"}
            THEN MkdirAll(destDirs, EntryTargetDir)
            ELSE IF stage = "mkdir"
            THEN MkdirAll(destDirs, SubSeq(EntryTargetDir, 1,
                                           Len(EntryTargetDir) - 1))
            ELSE destDirs
       /\ IF stage = "copy"
          THEN \E part \in Partial(Entry.content) :
                 destFiles' =
                   copyFile(destFiles,
                            uniqueDestPath(destFiles,
                                           MkdirAll(destDirs, EntryTargetDir),
                                           EntryTargetDir, EntryName),
                            part)
          ELSE destFiles' = destFiles
  /\ warnCsv' = IF Len(skipped) > 0 THEN writeWarnings(skipped) ELSE warnCsv
  /\ pc' = "failed"
  /\ UNCHANGED <<args, cfg, srcTree, resolver, dateResolver, walk, pos,
                 hashIndex, skipped, copies, gated, rerun, idle>>

\* variant: the index entry is made before the copy, which then fails
VisitFailIndexed ==
  /\ Visiting
  /\ \E stage \in {"walk", "info", "hash", "mkdir", "stat", "open", "copy"} :
       /\ stage = "walk" => Entry.kind = "dir"
       /\ stage = "info" => Entry.kind # "dir"
       /\ stage = "hash" => IsHashed
       /\ stage \in {"mkdir", "stat", "open", "copy"} => IsFresh
       /\ destDirs' =
            IF stage \in {"stat", "open", "copy"}
            THEN MkdirAll(destDirs, EntryTargetDir)
            ELSE IF stage = "mkdir"
            THEN MkdirAll(destDirs, SubSeq(EntryTargetDir, 1,
                                           Len(EntryTargetDir) - 1))
            ELSE destDirs
       /\ IF stage = "copy"
          THEN \E part \in Partial(Entry.content) :
                 destFiles' =
                   copyFile(destFiles,
                            uniqueDestPath(destFiles,
                                           MkdirAll(destDirs, EntryTargetDir),
                                           EntryTargetDir, EntryName),
                            part)
          ELSE destFiles' = destFiles
       /\ hashIndex' =
            IF stage = "copy"
            THEN (EntryHash :>
                    uniqueDestPath(destFiles,
                                   MkdirAll(destDirs, EntryTargetDir),
                                   EntryTargetDir, EntryName)) @@ hashIndex
            ELSE hashIndex
  /\ pc' = "failed"
  /\ UNCHANGED <<args, cfg, srcTree, resolver, dateResolver, walk, pos,
                 skipped, warnCsv, copies, gated, rerun, idle>>

\* callback: an I/O operation fails and the walk returns the error
VisitFail ==
  /\ Visiting
  /\ \E stage \in {"walk", "info", "hash", "mkdir", "stat", "open", "copy"} :
       /\ stage = "walk" => Entry.kind = "dir"
       /\ stage = "info" => Entry.kind # "dir"
       /\ stage = "hash" => IsHashed
       /\ stage \in {"mkdir", "stat", "open", "copy"} => IsFresh
       /\ destDirs' =
            IF stage \in {"stat", "open", "copy"}
            THEN MkdirAll(destDirs, EntryTargetDir)
            ELSE IF stage = "mkdir"
            THEN MkdirAll(destDirs, SubSeq(EntryTargetDir, 1,
                                           Len(EntryTargetDir) - 1))
            ELSE destDirs
       /\ IF stage = "copy"
          THEN \E part \in Partial(Entry.content) :
                 destFiles' =
                   copyFile(destFiles,
                            uniqueDestPath(destFiles,
                                           MkdirAll(destDirs, EntryTargetDir),
                                           EntryTargetDir, EntryName),
                            part)
          ELSE destFiles' = destFiles
  /\ pc' = "failed"
  /\ UNCHANGED <<args, cfg, srcTree, resolver, dateResolver, walk, pos,
                 hashIndex, skipped, warnCsv, copies, gated, rerun, idle>>

\* variant: the report is written without looking at the skip list
FinishAlways ==
  /\ pc = "walk" /\ pos > Len(walk)
  /\ warnCsv' = writeWarnings(skipped)
  /\ pc' = "done"
  /\ UNCHANGED <<args, cfg, srcTree, resolver, dateResolver, walk, pos,
                 hashIndex, skipped, destDirs, destFiles, copies, gated,
                 rerun, idle>>

\* run, lines 157-167: the walk is over; the skip list is written if any
Finish ==
  /\ pc = "walk" /\ pos > Len(walk)
  /\ warnCsv' = IF Len(skipped) > 0
                THEN writeWarnings(skipped)
                ELSE warnCsv
  /\ pc' = "done"
  /\ UNCHANGED <<args, cfg, srcTree, resolver, dateResolver, walk, pos,
                 hashIndex, skipped, destDirs, destFiles, copies, gated,
                 rerun, idle>>

\* writeWarnings fails: the file is not opened, or it is left truncated
FinishFail ==
  /\ pc = "walk" /\ pos > Len(walk)
  /\ Len(skipped) > 0
  /\ \E opened \in BOOLEAN :
       warnCsv' = IF opened
                  THEN writeWarnings(SubSeq(skipped, 1, Len(skipped) - 1))
                  ELSE warnCsv
  /\ pc' = "failed"
  /\ UNCHANGED <<args, cfg, srcTree, resolver, dateResolver, walk, pos,
                 hashIndex, skipped, destDirs, destFiles, copies, gated,
                 rerun, idle>>

\* the command is started again on the same source and destination
Rerun ==
  /\ pc = "done" /\ ~rerun
  /\ rerun' = TRUE
  /\ pc' = "args"
  /\ resolver' = NoResolver
  /\ dateResolver' = newDateResolver(<<>>)
  /\ walk' = <<>>
  /\ pos' = 1
  /\ hashIndex' = <<>>
  /\ skipped' = <<>>
  /\ copies' = <<>>
  /\ gated' = {}
  /\ UNCHANGED <<args, cfg, srcTree, destDirs, destFiles, warnCsv, idle>>

Next ==
  \/ UsageError
  \/ Setup
  \/ SetupFail
  \/ VisitDir
  \/ VisitNonRegular
  \/ VisitSmallImage
  \/ VisitDuplicate
  \/ VisitCopy
  \/ VisitFail
  \/ Finish
  \/ FinishFail
  \/ Rerun

Spec == Init /\ [][Next]_vars


(***************************************************************************)
(* SpecResolve: dateResolver.resolve as a function of what each pattern    *)
(* yields on the file name (FindStringSubmatch and SubexpNames).           *)
(***************************************************************************)
Y2024 == <<"2", "0", "2", "4">>
M01 == <<"0", "1">>
Y1999 == <<"1", "9", "9", "9">>
M12 == <<"1", "2">>
Word == <<"a", "b", "c", "d">>
GroupTexts == {<<>>, Y2024, M01, Word}
Leading == {<<>>, <<"2", "0">>}

RECURSIVE Concat(_)
Concat(ss) == IF ss = <<>> THEN <<>> ELSE Head(ss) \o Concat(Tail(ss))

\* group names of a pattern: Go rejects a pattern that repeats a name
GroupNames(n) ==
  {ns \in [1..n -> {"", "year", "month"}] :
     \A i, j \in 1..n : i # j /\ ns[i] # "" => ns[i] # ns[j]}

NoMatch == [matched |-> FALSE, matches |-> <<>>, subexpNames |-> <<"">>]

MatchOf(pre, gs, ns) ==
  [matched |-> TRUE, matches |-> <<pre \o Concat(gs)>> \o gs,
   subexpNames |-> <<"">> \o ns]

PatternResults ==
  {NoMatch} \cup
  UNION {{MatchOf(pre, gs, ns) :
            pre \in Leading, gs \in [1..n -> GroupTexts], ns \in GroupNames(n)} :
         n \in 0..MaxGroups}

\* results used in lists of several patterns: no match, a match without a
\* valid pair, a positional pair and a named pair
Typical ==
  {NoMatch,
   MatchOf(<<>>, <<Word>>, <<"">>),
   MatchOf(<<>>, <<Y2024, M01>>, <<"", "">>),
   MatchOf(<<>>, <<M12, Y1999>>, <<"month", "year">>)}

ResolveInputs ==
  {<<r>> : r \in PatternResults} \cup
  UNION {[1..n -> Typical] : n \in 2..MaxPatterns}

RunIdle ==
  /\ pc = "idle"
  /\ args = GoodArgs
  /\ cfg = CfgBare
  /\ srcTree = {}
  /\ resolver = NoResolver
  /\ dateResolver = newDateResolver(<<>>)
  /\ walk = <<>>
  /\ pos = 1
  /\ hashIndex = <<>>
  /\ skipped = <<>>
  /\ warnCsv = NoWarn
  /\ copies = <<>>
  /\ gated = {}
  /\ rerun = FALSE

InitResolve ==
  /\ RunIdle
  /\ destDirs = {}
  /\ destFiles = <<>>
  /\ rsIn \in ResolveInputs
  /\ rsOut = NoResult
  /\ IdleNamer
  /\ IdleCategory

\* resolve is applied to the name
Resolve ==
  /\ ~rsOut.done
  /\ rsIn # <<>>
  /\ rsOut' = [done |-> TRUE, out |-> resolveLoop(rsIn, 1).out,
               at |-> resolveLoop(rsIn, 1).at]
  /\ UNCHANGED <<runVars, rsIn, nmName, nmOut, ctName, ctOut>>

NextResolve == Resolve

SpecResolve == InitResolve /\ [][NextResolve]_vars

(***************************************************************************)
(* SpecNamer: uniqueDestPath on a directory that already holds files.      *)
(***************************************************************************)
NamerDir == <<"images">>
NamerNames ==
  {nameA, nameA1, <<"a">>, <<"a", ".">>, JPG, <<"a", ".", "b">> \o JPG}

Chain(name, n) ==
  {DestPath(NamerDir, name)} \cup
  {DestPath(NamerDir, Candidate(name, k)) : k \in 1..n}

ExistingSets(name) ==
  (SUBSET Chain(name, MaxExisting)) \cup {Chain(name, n) : n \in 9..11}

InitNamer ==
  /\ RunIdle
  /\ nmName \in NamerNames
  /\ \E S \in ExistingSets(nmName) : destFiles = [p \in S |-> Big]
  /\ \E sub \in SUBSET {Append(NamerDir, nmName),
                        Append(NamerDir, Candidate(nmName, 1))} :
       /\ \A d \in sub : DestPath(NamerDir, d[2]) \notin DOMAIN destFiles
       /\ destDirs = MkdirAll({}, NamerDir) \cup sub
  /\ nmOut = NoPath
  /\ IdleResolve
  /\ IdleCategory

\* uniqueDestPath is applied to the directory and the name
Name ==
  /\ ~nmOut.done
  /\ nmName # <<>>
  /\ nmOut' = [done |-> TRUE,
               path |-> uniqueDestPath(destFiles, destDirs, NamerDir, nmName)]
  /\ UNCHANGED <<runVars, rsIn, rsOut, nmName, ctName, ctOut>>

NextNamer == Name

SpecNamer == InitNamer /\ [][NextNamer]_vars


(***************************************************************************)
(* Properties of uniqueDestPath (SpecNamer).                               *)
(***************************************************************************)
NoDot(s) == \A i \in 1..Len(s) : s[i] # "."

\* ext is the part of name from its last '.', empty if there is none
IsSplit(name, base, ext) ==
  /\ name = base \o ext
  /\ \/ ext = <<>> /\ NoDot(name)
     \/ ext # <<>> /\ ext[1] = "." /\ NoDot(Tail(ext))

There(n) == Exists(destFiles, destDirs, NamerDir, n)

Numbered(base, k, ext) == base \o <<"_">> \o Itoa(k) \o ext

\* C4: uniqueDestPath returns dir/name when that path does not exist, and
\* otherwise dir/base_k+ext for the least k >= 1 whose path does not exist,
\* where ext is the part of name from its last '.'; the returned path does
\* not exist.
C4_UniquePathIsFirstFree ==
  nmOut.done =>
    /\ nmOut.path.dir = NamerDir
    /\ ~There(nmOut.path.name)
    /\ IF ~There(nmName) THEN nmOut.path.name = nmName
       ELSE \E cut \in 0..Len(nmName) :
              LET base == SubSeq(nmName, 1, cut)
                  ext == SubSeq(nmName, cut + 1, Len(nmName))
              IN /\ IsSplit(nmName, base, ext)
                 /\ \E k \in 1..(Cardinality(DOMAIN destFiles)
                                 + Cardinality(destDirs) + 1) :
                      /\ nmOut.path.name = Numbered(base, k, ext)
                      /\ \A j \in 1..(k - 1) : There(Numbered(base, j, ext))

\* a name with two dots is taken, so are its first nine numbered variants
C4_Witness ==
  /\ nmOut.done
  /\ nmName = <<"a", ".", "b">> \o JPG
  /\ nmOut.path.name = <<"a", ".", "b", "_", "1", "0">> \o JPG

(***************************************************************************)
(* Properties of dateResolver.resolve (SpecResolve).                       *)
(***************************************************************************)
ExtractedAt(i) == extractYearMonth(rsIn[i].matches, rsIn[i].subexpNames)

ValidAt(i) ==
  /\ rsIn[i].matched
  /\ Len(ExtractedAt(i).year) = 4
  /\ Len(ExtractedAt(i).month) = 2

\* C7: resolve returns the pair of the first pattern, in list order, that
\* matches and yields a valid pair; a matching pattern without a valid pair
\* is passed over; without any such pattern the result is found=false.
C7_FirstValidPatternWins ==
  rsOut.done =>
    LET valid == {i \in 1..Len(rsIn) : ValidAt(i)}
    IN IF valid = {} THEN rsOut.at = 0 /\ rsOut.out = NotFound
       ELSE /\ rsOut.at = Min(valid)
            /\ rsOut.out = [year |-> ExtractedAt(Min(valid)).year,
                            ym |-> ExtractedAt(Min(valid)).year
                                   \o ExtractedAt(Min(valid)).month,
                            ok |-> TRUE]

\* the first pattern matches without a valid pair and the second one wins
C7_Witness ==
  /\ rsOut.done
  /\ Len(rsIn) = 2
  /\ rsIn[1].matched /\ ~ValidAt(1)
  /\ rsOut.at = 2 /\ rsOut.out.ok

\* the text of the group called key, empty when no group has that name
NamedText(r, key) ==
  LET idx == {i \in 1..Len(r.subexpNames) : r.subexpNames[i] = key}
  IN IF idx = {} THEN <<>> ELSE r.matches[Max(idx)]

GroupCount(r) == Len(r.matches) - 1

\* the first all-numeric token of n characters, empty when there is none
FirstToken(tokens, n) ==
  LET idx == {i \in 1..Len(tokens) : Len(tokens[i]) = n /\ allDigits(tokens[i])}
  IN IF idx = {} THEN <<>> ELSE tokens[Min(idx)]

ScanOf(tokens) ==
  [year |-> FirstToken(tokens, 4), month |-> FirstToken(tokens, 2)]

Pair(y, m) == [year |-> y, month |-> m]

\* the extraction as the claim has it: named, else positional, else scan
ClaimedExtraction(r) ==
  IF NamedText(r, "year") # <<>> /\ NamedText(r, "month") # <<>>
  THEN Pair(NamedText(r, "year"), NamedText(r, "month"))
  ELSE IF GroupCount(r) >= 2 THEN Pair(r.matches[2], r.matches[3])
  ELSE ScanOf(r.matches)

\* the extraction of the code: the positional groups are used only when the
\* named year is empty, and the scan whenever a part is still empty
ActualExtraction(r) ==
  IF NamedText(r, "year") # <<>>
  THEN IF NamedText(r, "month") # <<>>
       THEN Pair(NamedText(r, "year"), NamedText(r, "month"))
       ELSE ScanOf(r.matches)
  ELSE IF GroupCount(r) >= 2 /\ r.matches[2] # <<>> /\ r.matches[3] # <<>>
       THEN Pair(r.matches[2], r.matches[3])
       ELSE ScanOf(r.matches)

ResolveBy(Extraction(_)) ==
  LET valid == {i \in 1..Len(rsIn) :
                  /\ rsIn[i].matched
                  /\ Len(Extraction(rsIn[i]).year) = 4
                  /\ Len(Extraction(rsIn[i]).month) = 2}
  IN IF valid = {} THEN NotFound
     ELSE [year |-> Extraction(rsIn[Min(valid)]).year,
           ym |-> Extraction(rsIn[Min(valid)]).year
                  \o Extraction(rsIn[Min(valid)]).month,
           ok |-> TRUE]

\* C8 as stated: named groups when both are present and non-empty, else
\* the first two groups when there are at least two, else the scan.
C8_Original == rsOut.done => rsOut.out = ResolveBy(ClaimedExtraction)

\* C8: named groups when both are present and non-empty; the first two
\* groups only when the named year is absent or empty and there are at
\* least two groups; the scan whenever year or month is empty after that.
C8_NamedThenPositionalThenScan ==
  rsOut.done => rsOut.out = ResolveBy(ActualExtraction)

\* a named year without a named month, two groups: the scan finds the pair
C8_Witness ==
  /\ rsOut.done
  /\ Len(rsIn) = 1 /\ rsIn[1].matched
  /\ GroupCount(rsIn[1]) = 2
  /\ NamedText(rsIn[1], "year") # <<>>
  /\ NamedText(rsIn[1], "month") = <<>>
  /\ rsIn[1].matches[2] = M01
  /\ rsOut.out = [year |-> Y2024, ym |-> Y2024 \o M01, ok |-> TRUE]

\* the scan decides the pair of this pattern
NeedsScan(r) ==
  /\ ~(NamedText(r, "year") # <<>> /\ NamedText(r, "month") # <<>>)
  /\ ~(/\ NamedText(r, "year") = <<>>
       /\ GroupCount(r) >= 2
       /\ r.matches[2] # <<>> /\ r.matches[3] # <<>>)

ScanDecides(Tokens(_)) ==
  rsOut.done =>
    \A i \in 1..Len(rsIn) :
      rsIn[i].matched /\ NeedsScan(rsIn[i]) =>
        LET y == FirstToken(Tokens(rsIn[i].matches), 4)
            m == FirstToken(Tokens(rsIn[i].matches), 2)
        IN /\ rsOut.at = i => rsOut.out.year = y /\ rsOut.out.ym = y \o m
           /\ y # <<>> /\ m # <<>> => rsOut.at \in 1..i
           /\ y = <<>> \/ m = <<>> => rsOut.at # i

AllTokens(matches) == matches
GroupTokens(matches) == Tail(matches)

\* C9 as stated: the scan reads the captured groups only.
C9_Original == ScanDecides(GroupTokens)

\* C9: the scan reads the whole match first and then the captured groups,
\* left to right; the first all-numeric token of 4 characters is the year,
\* the first all-numeric token of 2 characters is the month.
C9_ScanIncludesWholeMatch == ScanDecides(AllTokens)

\* one group, the whole match is the year and the group is the month
C9_Witness ==
  /\ rsOut.done
  /\ Len(rsIn) = 1 /\ rsIn[1].matched
  /\ GroupCount(rsIn[1]) = 1
  /\ rsIn[1].matches = <<<<"2", "0", "0", "1">>, M01>>
  /\ rsOut.out.ok /\ rsOut.out.year = <<"2", "0", "0", "1">>

\* C10 as stated: a found year is four decimal digits, the year-month six
\* decimal digits beginning with the year; not found gives empty strings.
C10_Original ==
  rsOut.done =>
    IF rsOut.out.ok
    THEN /\ Len(rsOut.out.year) = 4 /\ allDigits(rsOut.out.year)
         /\ Len(rsOut.out.ym) = 6 /\ allDigits(rsOut.out.ym)
         /\ SubSeq(rsOut.out.ym, 1, 4) = rsOut.out.year
    ELSE rsOut.out.year = <<>> /\ rsOut.out.ym = <<>>

\* C10: a found year has exactly four characters, the year-month exactly
\* six, beginning with the year; they are decimal digits when the scan
\* produced them; not found gives empty strings.
C10_LengthsOnly ==
  rsOut.done =>
    IF rsOut.out.ok
    THEN /\ Len(rsOut.out.year) = 4
         /\ Len(rsOut.out.ym) = 6
         /\ SubSeq(rsOut.out.ym, 1, 4) = rsOut.out.year
         /\ NeedsScan(rsIn[rsOut.at]) => allDigits(rsOut.out.ym)
    ELSE rsOut.out.year = <<>> /\ rsOut.out.ym = <<>>

\* a positional year of four letters is returned as found
C10_Witness ==
  /\ rsOut.done
  /\ rsOut.out.ok
  /\ rsOut.out.year = Word
  /\ Len(rsOut.out.ym) = 6


(***************************************************************************)
(* Properties of the run (Spec).                                           *)
(***************************************************************************)
\* the entries whose callback has returned nil in this run
Visited == {walk[i] : i \in 1..(pos - 1)}

RegularFiles == {e \in srcTree : e.kind = "regular"}

CategoryOf(e) == categoryFor(newCategoryResolver(cfg), Last(e.path))

\* an image strictly below 1 MiB
Undersized(e) == CategoryOf(e) = "images" /\ e.content.size < 1048576

CopiesOf(path) == {i \in 1..Len(copies) : copies[i].srcPath = path}
SkipsOf(path) == {i \in 1..Len(skipped) : skipped[i].srcPath = path}

\* lexical pre-order of two source paths: name by name, a directory
\* before everything below it
PathLess(p, q) ==
  \E k \in 1..Len(q) :
    /\ k <= Len(p) + 1
    /\ \A i \in 1..(k - 1) : p[i] = q[i]
    /\ (k = Len(p) + 1 \/ StrLess(p[k], q[k]))

\* the regular files that reach the dedup check with the content of f
SameContent(f) ==
  {e \in RegularFiles : ~Undersized(e) /\ e.content = f.content}

FirstOf(S) == CHOOSE k \in S : \A o \in S \ {k} : PathLess(k.path, o.path)

\* C1: of the files with identical content that reach the dedup check, the
\* first in lexical pre-order is copied once; every later one is not
\* copied and has exactly one skip record, with its own source path and
\* the final destination path of the first one.
C1_FirstSeenWins ==
  /\ \A f \in Visited :
       f.kind = "regular" /\ ~Undersized(f) =>
         LET first == FirstOf(SameContent(f))
         IN IF f = first
            THEN Cardinality(CopiesOf(f.path)) = 1 /\ SkipsOf(f.path) = {}
            ELSE /\ CopiesOf(f.path) = {}
                 /\ Cardinality(SkipsOf(f.path)) = 1
                 /\ first \in Visited
                 /\ \A i \in SkipsOf(f.path) :
                      \E j \in CopiesOf(first.path) :
                        skipped[i].destPath = copies[j].destPath
  /\ pc = "done" =>
       \A f \in RegularFiles :
         ~Undersized(f) =>
           /\ Cardinality({i \in 1..Len(copies) :
                 \E e \in SameContent(f) : copies[i].srcPath = e.path}) = 1
           /\ Cardinality({i \in 1..Len(skipped) :
                 \E e \in SameContent(f) : skipped[i].srcPath = e.path})
              = Cardinality(SameContent(f)) - 1

\* three identical files, one of them nested: one copy, two records that
\* name the same kept path
C1_Witness ==
  /\ pc = "done"
  /\ Len(copies) = 1
  /\ Len(skipped) = 2
  /\ skipped[1].destPath = copies[1].destPath
  /\ skipped[2].destPath = copies[1].destPath
  /\ \E i \in 1..2 : Len(skipped[i].srcPath) = 2

\* C2: after a run that completes without error every regular file has
\* exactly one outcome: one copy at its destination path, one skip record,
\* or a silent skip by the size gate; the three counts add up to the
\* number of regular files.
C2_ExactlyOneOutcome ==
  pc = "done" =>
    /\ \A e \in RegularFiles :
         /\ Cardinality(CopiesOf(e.path)) + Cardinality(SkipsOf(e.path))
            + (IF e.path \in gated THEN 1 ELSE 0) = 1
         /\ \A i \in CopiesOf(e.path) :
              /\ copies[i].destPath \in DOMAIN destFiles
              /\ destFiles[copies[i].destPath] = e.content
    /\ Len(copies) + Len(skipped) + Cardinality(gated)
       = Cardinality(RegularFiles)

\* a completed run with one outcome of each kind
C2_Witness ==
  /\ pc = "done"
  /\ Len(copies) = 1
  /\ Len(skipped) = 1
  /\ Cardinality(gated) = 1

NumberedVariant(name, of) ==
  \E cut \in 0..Len(of) :
    LET base == SubSeq(of, 1, cut)
        ext == SubSeq(of, cut + 1, Len(of))
    IN /\ IsSplit(of, base, ext)
       /\ \E k \in 1..(Cardinality(DOMAIN destFiles) + 1) :
            name = Numbered(base, k, ext)

KeepsFiles ==
  \A p \in DOMAIN destFiles :
    p \in DOMAIN destFiles' /\ destFiles'[p] = destFiles[p]

NewFilesNumbered ==
  \A p \in (DOMAIN destFiles') \ (DOMAIN destFiles) :
    Visiting /\ NumberedVariant(p.name, EntryName)

\* C5 as stated: in the second run every file produced goes to a new path
\* with a numbered name and every file the first run left keeps its
\* content, warn.csv included.
C5_Original ==
  [][rerun => /\ KeepsFiles
              /\ NewFilesNumbered
              /\ (warnCsv.exists => warnCsv' = warnCsv)]_vars

\* C5: in the second run every copied file goes to a new path with a
\* numbered name and every copied file the first run left keeps its
\* content; warn.csv alone is rewritten in place, and only at the end of a
\* walk that recorded a duplicate.
C5_CopiesNeverOverwrite ==
  [][rerun => /\ KeepsFiles
              /\ NewFilesNumbered
              /\ (warnCsv' # warnCsv =>
                    /\ pc = "walk" /\ pos > Len(walk)
                    /\ Len(skipped) > 0)]_vars

\* the second run has ended, it copied two files and rewrote warn.csv
C5_Witness ==
  /\ rerun
  /\ pc = "done"
  /\ Len(copies) = 2
  /\ Cardinality(DOMAIN destFiles) = 4
  /\ warnCsv = writeWarnings(skipped)

MaxExtensions == 2

TXT == <<".", "t", "x", "t">>
ImageExtensions ==
  {<<>>, <<"j", "p", "g">>, <<".", "J", "P", "G">>,
   <<".", ".", "j", "p", "g">>}
DocumentExtensions == {<<".">>, <<"t", "x", "t">>, <<"J", "p", "g">>}
ExtensionLists(S) == UNION {[1..n -> S] : n \in 0..MaxExtensions}

CategoryConfigs ==
  {[Categories |-> <<[Name |-> "images", Extensions |-> im],
                     [Name |-> "documents", Extensions |-> doc]>>,
    DefaultCategory |-> d,
    DatePatterns |-> <<>>] :
     im \in ExtensionLists(ImageExtensions),
     doc \in ExtensionLists(DocumentExtensions),
     d \in {"", "misc"}}

CategoryNames ==
  {nameA, nameAUpper, <<"a">>, <<"a", ".">>, JPG, <<"a">> \o TXT,
   <<"a", ".", "b">>, <<"a">> \o TXT \o JPG}

InitCategory ==
  /\ pc = "idle"
  /\ args = GoodArgs
  /\ cfg \in CategoryConfigs
  /\ srcTree = {}
  /\ resolver = NoResolver
  /\ dateResolver = newDateResolver(<<>>)
  /\ walk = <<>>
  /\ pos = 1
  /\ hashIndex = <<>>
  /\ skipped = <<>>
  /\ destDirs = {}
  /\ destFiles = <<>>
  /\ warnCsv = NoWarn
  /\ copies = <<>>
  /\ gated = {}
  /\ rerun = FALSE
  /\ IdleResolve
  /\ IdleNamer
  /\ ctName \in CategoryNames
  /\ ctOut = NoCategory

\* categoryFor is applied to the name
Classify ==
  /\ ~ctOut.done
  /\ ctName # <<>>
  /\ ctOut' = [done |-> TRUE,
               category |-> categoryFor(newCategoryResolver(cfg), ctName)]
  /\ UNCHANGED <<runVars, rsIn, rsOut, nmName, nmOut, ctName>>

NextCategory == Classify

SpecCategory == InitCategory /\ [][NextCategory]_vars

\* the text after the last '.' of the name, lowercased; empty without a '.'
LowerExtOf(name) ==
  LET dots == {i \in 1..Len(name) : name[i] = "."}
  IN IF dots = {} THEN <<>>
     ELSE LET k == CHOOSE i \in dots : \A j \in dots : j <= i
          IN ToLower(SubSeq(name, k + 1, Len(name)))

\* a configured extension as the table keys it
TableKey(e) ==
  LET l == ToLower(e)
  IN IF l # <<>> /\ l[1] = "." THEN Tail(l) ELSE l

\* the categories of the configuration that list the extension
Listing(c, ext) ==
  {i \in DOMAIN c.Categories :
     \E j \in DOMAIN c.Categories[i].Extensions :
        /\ TableKey(c.Categories[i].Extensions[j]) = ext
        /\ TableKey(c.Categories[i].Extensions[j]) # <<>>}

DefaultOf(c) == IF c.DefaultCategory = "" THEN "others" ELSE c.DefaultCategory

\* C11: categoryFor returns the default category ("others" when the
\* configuration leaves it blank) when the lowercased text after the last
\* '.' of the name is empty or no configured extension, lowercased and
\* without one leading dot, equals it; otherwise it returns the category
\* that lists the extension (the last one when several do).
C11_CategoryFor ==
  ctOut.done =>
    LET ext == LowerExtOf(ctName)
        in == Listing(cfg, ext)
    IN IF ext = <<>> \/ in = {}
       THEN ctOut.category = DefaultOf(cfg)
       ELSE ctOut.category =
              cfg.Categories[CHOOSE i \in in : \A j \in in : j <= i].Name

C11_Witness ==
  /\ ctOut.done
  /\ ctName = nameAUpper
  /\ cfg.DefaultCategory = ""
  /\ cfg.Categories[1].Extensions = <<<<>>, <<".", "J", "P", "G">>>>
  /\ cfg.Categories[2].Extensions = <<<<".">>, <<"t", "x", "t">>>>
  /\ ctOut.category = "images"

BadArgs == args.n # 2 \/ ~args.srcAbs \/ ~args.destAbs

\* C12: when the number of positional arguments is not two, or the source
\* or the destination is not absolute, the run can only end with a non-zero
\* exit, and it never touches the file system: the destination directory
\* is not created, no file is copied and no report is written.
C12_UsageErrorTouchesNothing ==
  BadArgs =>
    /\ pc \in {"args", "failed"}
    /\ destDirs = {}
    /\ destFiles = <<>>
    /\ warnCsv = NoWarn
    /\ copies = <<>>
    /\ hashIndex = <<>>

C12_Witness ==
  /\ pc = "failed"
  /\ args.n = 2 /\ args.srcAbs /\ ~args.destAbs
  /\ \E e \in srcTree : e.kind = "regular"
  /\ destDirs = {}
  /\ destFiles = <<>>

\* the files a complete walk suppresses as duplicates
Suppressed ==
  {f \in RegularFiles : ~Undersized(f) /\ f # FirstOf(SameContent(f))}

WalkFailed == pc = "failed" /\ pos <= Len(walk)

\* C14: when an I/O operation on an entry fails, the run ends there with a
\* non-zero exit: the failing entry and every later one are neither
\* copied, recorded nor gated, the copies made so far stay in the
\* destination with their content, the step writes no warn.csv even when
\* duplicates are on the skip list, and nothing happens afterwards.
C14_FailureAborts ==
  /\ [](WalkFailed =>
          /\ \A i \in pos..Len(walk) :
               /\ CopiesOf(walk[i].path) = {}
               /\ SkipsOf(walk[i].path) = {}
               /\ walk[i].path \notin gated
          /\ \A i \in 1..Len(copies) :
               /\ copies[i].destPath \in DOMAIN destFiles
               /\ \E e \in Visited :
                    /\ e.path = copies[i].srcPath
                    /\ destFiles[copies[i].destPath] = e.content
          /\ ~rerun => ~warnCsv.exists)
  /\ [][/\ pc # "failed"
        /\ (Visiting /\ pc' = "failed") =>
             /\ KeepsFiles
             /\ UNCHANGED <<warnCsv, skipped, hashIndex, copies, gated, pos>>
       ]_vars

\* a copy and a duplicate are behind, the copy of a third file fails midway
C14_Witness ==
  /\ WalkFailed
  /\ Len(copies) = 1
  /\ Len(skipped) = 1
  /\ Cardinality(DOMAIN destFiles) = 2
  /\ ~warnCsv.exists

AtNonFile == Visiting /\ Entry.kind # "regular"

\* C16: at a directory or a non-regular entry no step copies a file,
\* creates a destination directory, records a skip or adds an index entry;
\* unless reading the entry fails the walk moves on to the next entry, and
\* moving on is always possible: the entry itself never aborts the run.
C16_NonFilesChangeNothing ==
  /\ [](AtNonFile => ENABLED (VisitDir \/ VisitNonRegular))
  /\ [][AtNonFile =>
          /\ UNCHANGED <<destDirs, destFiles, skipped, hashIndex, copies,
                         gated, warnCsv>>
          /\ \/ pc' = "walk" /\ pos' = pos + 1
             \/ pc' = "failed" /\ pos' = pos]_vars

\* a completed run that met a non-regular entry and a directory, and
\* copied a file after the directory
C16_Witness ==
  /\ pc = "done"
  /\ \E i \in 1..Len(walk) : walk[i].kind = "other"
  /\ \E i \in 1..Len(walk) :
       /\ walk[i].kind = "dir"
       /\ walk[i].path # <<>>
       /\ \E j \in (i + 1)..Len(walk) : CopiesOf(walk[j].path) # {}
  /\ \A i \in 1..Len(walk) :
       walk[i].kind # "regular" =>
         /\ CopiesOf(walk[i].path) = {}
         /\ SkipsOf(walk[i].path) = {}

\* C17: during the walk the dedup index only grows: no key is removed and
\* no key changes its value; a key is added only by the step that copies
\* the file at hand, after the copy is in the destination with the file's
\* content, and steps that record a duplicate, gate an image or fail add
\* nothing.
C17_IndexOnlyGrows ==
  [][pc = "walk" =>
       /\ \A h \in DOMAIN hashIndex :
            h \in DOMAIN hashIndex' /\ hashIndex'[h] = hashIndex[h]
       /\ \A h \in (DOMAIN hashIndex') \ (DOMAIN hashIndex) :
            /\ IsHashed
            /\ h = EntryHash
            /\ pc' = "walk"
            /\ hashIndex'[h] \in DOMAIN destFiles'
            /\ destFiles'[hashIndex'[h]] = Entry.content
            /\ copies' = Append(copies, [srcPath |-> Entry.path,
                                         destPath |-> hashIndex'[h]])
            /\ skipped' = skipped
            /\ gated' = gated
       /\ (skipped' # skipped \/ gated' # gated \/ pc' = "failed") =>
            hashIndex' = hashIndex]_vars

\* two entries made by two copies, then a duplicate recorded and the run
\* over: the index still holds exactly the two entries
C17_Witness ==
  /\ pc = "done"
  /\ Len(copies) = 2
  /\ Len(skipped) = 1
  /\ Cardinality(DOMAIN hashIndex) = 2
  /\ \A i \in 1..2 :
       \E h \in DOMAIN hashIndex : hashIndex[h] = copies[i].destPath

\* the visited files whose content was first met in another category
CrossCategoryDuplicates ==
  {f \in Visited :
     /\ f.kind = "regular"
     /\ ~Undersized(f)
     /\ f # FirstOf(SameContent(f))
     /\ CategoryOf(f) # CategoryOf(FirstOf(SameContent(f)))}

\* C18: the index is keyed by the digest alone, so a file whose content
\* was first met in a file of another category is not copied; it gets one
\* skip record, which names the kept copy below the first file's category;
\* and the step that meets a known digest creates no directory and no file.
C18_DedupAcrossCategories ==
  /\ [](\A f \in CrossCategoryDuplicates :
          LET first == FirstOf(SameContent(f))
          IN /\ CopiesOf(f.path) = {}
             /\ Cardinality(SkipsOf(f.path)) = 1
             /\ \A i \in SkipsOf(f.path) :
                  /\ skipped[i].destPath.dir[1] = CategoryOf(first)
                  /\ \E j \in CopiesOf(first.path) :
                       skipped[i].destPath = copies[j].destPath)
  /\ [][(IsHashed /\ EntryHash \in DOMAIN hashIndex) =>
          UNCHANGED <<destDirs, destFiles, copies>>]_vars

\* an image with the content of a document met before it: the record
\* names the document's copy and no images directory exists
C18_Witness ==
  /\ pc = "done"
  /\ ~rerun
  /\ \E f \in CrossCategoryDuplicates :
       /\ CategoryOf(f) = "images"
       /\ \A i \in SkipsOf(f.path) :
            skipped[i].destPath.dir = <<"documents">>
  /\ <<"images">> \notin destDirs

\* the destination path is the path of a copy of this run made from a
\* source met before the given one, and the file there has the content
CopiedEarlier(dest, srcPath, content) ==
  /\ dest \in DOMAIN destFiles
  /\ destFiles[dest] = content
  /\ \E i \in 1..Len(copies) :
       /\ copies[i].destPath = dest
       /\ srcPath # copies[i].srcPath => PathLess(copies[i].srcPath, srcPath)

\* C19: every value of the dedup index is the path of a copy this run
\* made, the file exists and its digest is the key; every skip record
\* names the path of a copy this run made from a file met earlier, and the
\* file there has the content of the skipped source.
C19_IndexAndSkipsNameCopies ==
  /\ \A h \in DOMAIN hashIndex :
       \E i \in 1..Len(copies) :
         /\ hashIndex[h] = copies[i].destPath
         /\ CopiedEarlier(hashIndex[h], copies[i].srcPath,
                          destFiles[hashIndex[h]])
         /\ fileHash(destFiles[hashIndex[h]]) = h
  /\ \A k \in 1..Len(skipped) :
       \E e \in RegularFiles :
         /\ e.path = skipped[k].srcPath
         /\ skipped[k].srcPath \notin {copies[i].srcPath : i \in 1..Len(copies)}
         /\ CopiedEarlier(skipped[k].destPath, e.path, e.content)

\* second run: the index and the skip record name this run's numbered
\* copy, not the file the first run left
C19_Witness ==
  /\ pc = "done"
  /\ rerun
  /\ Len(skipped) = 1
  /\ skipped[1].destPath = DestPath(<<"images">>, nameA1)
  /\ \E h \in DOMAIN hashIndex : hashIndex[h] = skipped[1].destPath
  /\ DestPath(<<"images">>, nameA) \in DOMAIN destFiles

\* C20: two copies of a run never have the same destination path or the
\* same source, and the step that copies a file adds exactly one file to
\* the destination, at a path where nothing was before, with the content
\* of the source, and leaves every file already there as it was, also
\* when base name and category are shared.
C20_CopiesNeverCollide ==
  /\ [](\A i, j \in 1..Len(copies) :
          i # j => /\ copies[i].destPath # copies[j].destPath
                   /\ copies[i].srcPath # copies[j].srcPath)
  /\ [][(pc = "walk" /\ copies' # copies) =>
          \E p \in (DOMAIN destFiles') \ (DOMAIN destFiles) :
            /\ DOMAIN destFiles' = (DOMAIN destFiles) \cup {p}
            /\ KeepsFiles
            /\ destFiles'[p] = Entry.content
            /\ copies' = Append(copies, [srcPath |-> Entry.path,
                                         destPath |-> p])]_vars

\* second run over two images named alike: four files, none overwritten
C20_Witness ==
  /\ pc = "done"
  /\ rerun
  /\ Len(copies) = 2
  /\ Last(copies[1].srcPath) = Last(copies[2].srcPath)
  /\ copies[1].destPath.dir = copies[2].destPath.dir
  /\ Cardinality(DOMAIN destFiles) = 4

=============================================================================
